---- MODULE Spec2Model ----
(***************************************************************************)
(* ByteStream of libsponge (src/libsponge/byte_stream.cc): a bounded FIFO  *)
(* of bytes with a producer side (write, end_input) and a consumer side    *)
(* (peek_output, pop_output, read).                                        *)
(*                                                                         *)
(* The stream is a record s with the members of the class:                 *)
(*   s.cap, s.dataStream, s.writeByte, s.readByte, s.end_input_            *)
(* Every member function is an operator on that record.  A function that   *)
(* can end in more than one way yields the set of its outcomes, each a     *)
(* record [s, n, str, err]: the stream afterwards, the returned count, the *)
(* returned string and the error raised ("none" when it returns).          *)
(***************************************************************************)
EXTENDS Integers, Sequences, FiniteSets, TLC

\* ------------------------------------------------------------------ bounds
MaxCap == 3        \* capacities 0..MaxCap are constructed
MaxLen == 2        \* longest string written, largest len requested
MaxChunks == 2     \* most non-empty chunks the remote end sends
MaxCount == 3      \* the counters are kept at or below this value
SizeBits == 3      \* width of size_t in the model (64 in the build)

SizeMod == 2 ^ SizeBits

\* byte values a caller writes; 0 is the NUL that ends a std::string
Byte == {1, 2}
Junk == {0} \cup Byte

Min(a, b) == IF a <= b THEN a ELSE b

SeqsOfLen(S, k) == [1..k -> S]
SeqsUpTo(S, n) == UNION {SeqsOfLen(S, k) : k \in 0..n}

Strings == SeqsUpTo(Byte, MaxLen)
Lens == 0..MaxLen

\* -------------------------------------------------- std::string, BufferList
\* std::string::substr(pos, n): at most n characters from position pos
substr(str, pos, n) == SubSeq(str, pos + 1, Min(Len(str), pos + n))

\* BufferList::size: the number of bytes held
BufferList_size(b) == Len(b)

\* BufferList::concatenate: the bytes held, as one string
BufferList_concatenate(b) == b

\* BufferList::append: the bytes of the other list go to the back
BufferList_append(b, other) == b \o other

\* BufferList::remove_prefix(n).  util/buffer.cc is not among the sources.
\* With n within the size it drops the first n bytes.  With n beyond the
\* size every byte is dropped; the stock list then throws out_of_range,
\* a clamping list returns normally.  Both are outcomes.
BufferList_remove_prefix(b, n) ==
    IF n <= Len(b)
    THEN {[b |-> SubSeq(b, n + 1, Len(b)), err |-> "none"]}
    ELSE {[b |-> <<>>, err |-> "out_of_range"], [b |-> <<>>, err |-> "none"]}

\* ------------------------------------------------------------- ByteStream
Outcome(s, n, str, err) == [s |-> s, n |-> n, str |-> str, err |-> err]

\* ByteStream::ByteStream(capacity): the other members take the default
\* member initialisers of the class (zero, empty, false)
ByteStream(capacity) ==
    [cap |-> capacity, dataStream |-> <<>>, writeByte |-> 0, readByte |-> 0,
     end_input_ |-> FALSE]

input_ended(s) == s.end_input_

buffer_size(s) == BufferList_size(s.dataStream)

buffer_empty(s) == buffer_size(s) = 0

\* eof that is content with either condition
eof_either(s) == input_ended(s) \/ buffer_empty(s)

eof(s) == input_ended(s) /\ buffer_empty(s)

bytes_written(s) == s.writeByte

bytes_read(s) == s.readByte

\* remaining_capacity that always leaves room for one more byte
remaining_capacity_spare(s) == (s.cap + 1 - buffer_size(s)) % SizeMod

\* remaining_capacity that forgets what is buffered
remaining_capacity_whole(s) == s.cap

remaining_capacity(s) == (s.cap - buffer_size(s)) % SizeMod

\* write that takes the whole string whatever the room left
write_unclamped(s, data) ==
    LET len == Len(data)
    IN  Outcome([s EXCEPT !.dataStream = BufferList_append(@, substr(data, 0, len)),
                          !.writeByte = (@ + len) % SizeMod],
                len, <<>>, "none")

\* write that puts the accepted bytes at the front
write_front(s, data) ==
    LET len == Min(remaining_capacity(s), Len(data))
    IN  Outcome([s EXCEPT !.dataStream = BufferList_append(substr(data, 0, len), @),
                          !.writeByte = (@ + len) % SizeMod],
                len, <<>>, "none")

\* write that counts the bytes offered, not the bytes accepted
write_counts_offered(s, data) ==
    LET len == Min(remaining_capacity(s), Len(data))
    IN  Outcome([s EXCEPT !.dataStream = BufferList_append(@, substr(data, 0, len)),
                          !.writeByte = (@ + Len(data)) % SizeMod],
                len, <<>>, "none")

\* write that turns bytes away once the input has ended
write_closed(s, data) ==
    LET len == IF s.end_input_ THEN 0 ELSE Min(remaining_capacity(s), Len(data))
    IN  Outcome([s EXCEPT !.dataStream = BufferList_append(@, substr(data, 0, len)),
                          !.writeByte = (@ + len) % SizeMod],
                len, <<>>, "none")

write(s, data) ==
    LET len == Min(remaining_capacity(s), Len(data))
    IN  Outcome([s EXCEPT !.dataStream = BufferList_append(@, substr(data, 0, len)),
                          !.writeByte = (@ + len) % SizeMod],
                len, <<>>, "none")

\* std::string(ptr, len) over the concatenated bytes.  The copy is not
\* bounded by the size.  With len = size + 1 it takes in the NUL that ends
\* the string; beyond that it reads past the string (undefined behaviour),
\* which yields len bytes whose tail is whatever lies there, or faults.
\* The function is const: s is as before.
peek_output(s, len) ==
    LET str == BufferList_concatenate(s.dataStream)
    IN  IF len <= Len(str)
        THEN {Outcome(s, 0, SubSeq(str, 1, len), "none")}
        ELSE {Outcome(s, 0, str \o <<0>> \o tail, "none") :
                  tail \in SeqsOfLen(Junk, len - Len(str) - 1)}
             \cup (IF len > Len(str) + 1 THEN {Outcome(s, 0, <<>>, "fault")} ELSE {})

\* remove_prefix(len), then readByte += len unless remove_prefix threw
pop_output(s, len) ==
    {IF r.err = "none"
     THEN Outcome([s EXCEPT !.dataStream = r.b,
                            !.readByte = (@ + len) % SizeMod],
                  0, <<>>, "none")
     ELSE Outcome([s EXCEPT !.dataStream = r.b], 0, <<>>, r.err) :
         r \in BufferList_remove_prefix(s.dataStream, len)}

\* read that takes the length to be 0
read_nothing(s, len) ==
    LET length == 0
    IN  UNION {IF p.err # "none"
               THEN {p}
               ELSE {Outcome(q.s, 0, p.str, q.err) : q \in pop_output(p.s, length)} :
                   p \in peek_output(s, length)}

\* read that passes len on as it came
read_unclamped(s, len) ==
    LET length == len
    IN  UNION {IF p.err # "none"
               THEN {p}
               ELSE {Outcome(q.s, 0, p.str, q.err) : q \in pop_output(p.s, length)} :
                   p \in peek_output(s, length)}

\* peek_output and pop_output with the length clamped to the size
read(s, len) ==
    LET length == Min(BufferList_size(s.dataStream), len)
    IN  UNION {IF p.err # "none"
               THEN {p}
               ELSE {Outcome(q.s, 0, p.str, q.err) : q \in pop_output(p.s, length)} :
                   p \in peek_output(s, length)}

\* end_input that flips the flag
end_input_flip(s) == Outcome([s EXCEPT !.end_input_ = ~@], 0, <<>>, "none")

end_input(s) == Outcome([s EXCEPT !.end_input_ = TRUE], 0, <<>>, "none")

\* ---------------------------------------------------------------- Address
\* src/libsponge/util/address.cc.  An Address is [size, storage]: _size and
\* the bytes of _address.storage, lowest address first.  A 32-bit value is
\* its four octets, most significant first.  little tells whether the host
\* keeps the least significant octet at the lowest address.
AF_INET == 2
AF_INET6 == 10
StorageSize == 128      \* sizeof(sockaddr_storage)
SockaddrInSize == 16    \* sizeof(sockaddr_in)
SockaddrIn6Size == 28   \* sizeof(sockaddr_in6)

Octet == {0, 1, 255}
U32 == [1..4 -> Octet]

Zeros(n) == [i \in 1..n |-> 0]

bswap32(v) == <<v[4], v[3], v[2], v[1]>>

htobe32(little, v) == IF little THEN bswap32(v) ELSE v

be32toh(little, v) == IF little THEN bswap32(v) ELSE v

\* the bytes in memory of a 32-bit and a 16-bit host value, and back
Store32(little, v) == IF little THEN bswap32(v) ELSE v
Load32(little, b) == IF little THEN bswap32(b) ELSE b
Store16(little, n) == IF little THEN <<n % 256, n \div 256>> ELSE <<n \div 256, n % 256>>
Load16(little, b) == IF little THEN b[1] + 256 * b[2] ELSE 256 * b[1] + b[2]

\* memcpy(dst, src, n): the first n bytes of dst become those of src
memcpy(dst, src, n) == [i \in 1..Len(dst) |-> IF i <= n THEN src[i] ELSE dst[i]]

\* sockaddr_in{}: sin_family, sin_port, sin_addr.s_addr, sin_zero
sockaddr_in(little, family, port, s_addr) ==
    Store16(little, family) \o port \o Store32(little, s_addr) \o Zeros(8)

ss_family(little, storage) == Load16(little, SubSeq(storage, 1, 2))

NoAddress == [size |-> 0, storage |-> Zeros(StorageSize)]

\* what a constructor or accessor ends with: the Address built (if any),
\* the number returned, the exception thrown with its error code, and the
\* number of bytes copied into the storage
AddrResult(built, a, num, err, code, copied) ==
    [built |-> built, a |-> a, num |-> num, err |-> err, code |-> code, copied |-> copied]

\* Address::Address(const sockaddr *addr, size_t size)
Address_raw(addr, size) ==
    IF size > StorageSize
    THEN AddrResult(FALSE, NoAddress, Zeros(4), "invalid sockaddr size", 0, 0)
    ELSE AddrResult(TRUE, [size |-> size,
                           storage |-> memcpy(Zeros(StorageSize), addr, size)],
                    Zeros(4), "none", 0, size)

\* Address::Address(node, service, hints): g is what getaddrinfo gave, its
\* return value and the list it resolved (empty for a null pointer)
Address_resolve(g) ==
    IF g.ret # 0
    THEN AddrResult(FALSE, NoAddress, Zeros(4), "getaddrinfo", g.ret, 0)
    ELSE IF g.res = <<>>
         THEN AddrResult(FALSE, NoAddress, Zeros(4),
                         "getaddrinfo returned successfully but with no results", 0, 0)
         ELSE Address_raw(g.res[1].ai_addr, g.res[1].ai_addrlen)

\* ipv4_numeric that trusts the address to be an IPv4 one
ipv4_numeric_unchecked(little, a) ==
    LET ipv4_addr == memcpy(Zeros(SockaddrInSize), a.storage, Min(a.size, SockaddrInSize))
    IN  AddrResult(TRUE, a, be32toh(little, Load32(little, SubSeq(ipv4_addr, 5, 8))),
                   "none", 0, 0)

\* Address::ipv4_numeric
ipv4_numeric(little, a) ==
    IF ss_family(little, a.storage) # AF_INET \/ a.size # SockaddrInSize
    THEN AddrResult(TRUE, a, Zeros(4), "ipv4_numeric called on non-IPV4 address", 0, 0)
    ELSE LET ipv4_addr == memcpy(Zeros(SockaddrInSize), a.storage, a.size)
         IN  AddrResult(TRUE, a, be32toh(little, Load32(little, SubSeq(ipv4_addr, 5, 8))),
                        "none", 0, 0)

\* from_ipv4_numeric that stores the value in host order
from_ipv4_numeric_host(little, ip_address) ==
    Address_raw(sockaddr_in(little, AF_INET, <<0, 0>>, ip_address), SockaddrInSize)

\* Address::from_ipv4_numeric
from_ipv4_numeric(little, ip_address) ==
    Address_raw(sockaddr_in(little, AF_INET, <<0, 0>>, htobe32(little, ip_address)),
                SockaddrInSize)

\* Address::operator==
Address_eq(a, b) ==
    IF a.size # b.size
    THEN FALSE
    ELSE SubSeq(a.storage, 1, a.size) = SubSeq(b.storage, 1, a.size)

\* ---------------------------------------------------- TCPSocket, get_URL
\* src/apps/webget.cc.  The socket is [connected, eof, closed, left]: the
\* endpoint it is connected to, whether a read has met the end of the
\* remote data, whether close() was called, and how many more chunks the
\* remote end may send.  util/socket.cc is not among the sources.  Every
\* call either does its work or throws; a set holds the outcomes
\* [socket, str, err].
TCPSocket == [connected |-> <<>>, eof |-> FALSE, closed |-> FALSE, left |-> MaxChunks]

Chunks == {"a", "b"}

SockOut(socket, str, err) == [socket |-> socket, str |-> str, err |-> err]

socket_connect(socket, address) ==
    {SockOut([socket EXCEPT !.connected = address], "", "none"),
     SockOut(socket, "", "unix_error")}

\* write(data): all of data is sent, or the call throws
socket_write(socket, data) ==
    {SockOut(socket, "", "none"), SockOut(socket, "", "unix_error")}

\* read(): the bytes that have arrived; none, and eof from then on, when
\* the remote end has closed
socket_read(socket) ==
    {SockOut([socket EXCEPT !.left = @ - 1], c, "none") : c \in IF socket.left > 0 THEN Chunks ELSE {}}
    \cup {SockOut([socket EXCEPT !.eof = TRUE], "", "none"),
          SockOut(socket, "", "unix_error")}

socket_eof(socket) == socket.eof

socket_close(socket) ==
    {SockOut([socket EXCEPT !.closed = TRUE], "", "none"),
     SockOut(socket, "", "unix_error")}

\* Address(host, "http"): the endpoint, or the exception of the resolver
Address_of(host, service) ==
    {[address |-> <<host, service>>, err |-> "none"],
     [address |-> <<>>, err |-> "getaddrinfo"]}

\* the request, piece by piece
data_send(host, path) ==
    <<"GET ", path, " HTTP/1.1\r\nHost: ", host, "\r\n", "Connection: close\r\n\r\n">>

\* a loop that stops after the first read
loop_condition_once(socket, reads) == reads = 0

\* while (!socket.eof())
loop_condition(socket, reads) == ~socket_eof(socket)

\* ------------------------------------------------------------------ state
VARIABLES
    cap, dataStream, writeByte, readByte,
    end_input_,  \* the members (end_input_ is _end_input)
    last,        \* the latest call: its name, arguments, result and error
    accepted,    \* every byte write has accepted, in order
    delivered,   \* every byte read has returned, in order
    web,         \* get_URL: where it stands, its socket and its output
    addr         \* Address: the latest call, its arguments and result

members == <<cap, dataStream, writeByte, readByte, end_input_>>
vars == <<cap, dataStream, writeByte, readByte, end_input_, last, accepted, delivered, web, addr>>

Stream ==
    [cap |-> cap, dataStream |-> dataStream, writeByte |-> writeByte,
     readByte |-> readByte, end_input_ |-> end_input_]

Call(op, data, len, o) ==
    [op |-> op, data |-> data, len |-> len, n |-> o.n, str |-> o.str, err |-> o.err]

Becomes(s) ==
    /\ cap' = s.cap
    /\ dataStream' = s.dataStream
    /\ writeByte' = s.writeByte
    /\ readByte' = s.readByte
    /\ end_input_' = s.end_input_

\* get_URL before it is called
WebIdle ==
    [pc |-> "idle", host |-> "", path |-> "", endpoint |-> <<>>,
     socket |-> TCPSocket, sent |-> <<>>, reads |-> 0, received |-> <<>>, printed |-> <<>>]

\* Address before anything is built
AddrIdle ==
    [op |-> "idle", how |-> "none", little |-> TRUE, x |-> Zeros(4), y |-> Zeros(4),
     built |-> FALSE, a |-> NoAddress, b |-> NoAddress, num |-> Zeros(4), eq |-> FALSE,
     err |-> "none", code |-> 0, copied |-> 0, size |-> 0, ret |-> 0, results |-> 0]

Holds(s) ==
    /\ cap = s.cap
    /\ dataStream = s.dataStream
    /\ writeByte = s.writeByte
    /\ readByte = s.readByte
    /\ end_input_ = s.end_input_

\* a fault ends the process: nothing is called after it
Running == last.err # "fault"

Init ==
    /\ \E capacity \in 0..MaxCap : Holds(ByteStream(capacity))
    /\ last = [op |-> "new", data |-> <<>>, len |-> 0, n |-> 0, str |-> <<>>, err |-> "none"]
    /\ accepted = <<>>
    /\ delivered = <<>>
    /\ web = WebIdle
    /\ addr = AddrIdle

Write ==
    \E data \in Strings :
        /\ Running
        /\ writeByte + Len(data) <= MaxCount
        /\ LET o == write(Stream, data)
           IN  /\ Becomes(o.s)
               /\ last' = Call("write", data, 0, o)
               /\ accepted' = accepted \o SubSeq(data, 1, o.n)
        /\ UNCHANGED <<delivered, web, addr>>

PeekOutput ==
    \E len \in Lens :
        /\ Running
        /\ \E o \in peek_output(Stream, len) :
               /\ Becomes(o.s)
               /\ last' = Call("peek_output", <<>>, len, o)
        /\ UNCHANGED <<accepted, delivered, web, addr>>

PopOutput ==
    \E len \in Lens :
        /\ Running
        /\ readByte + len <= MaxCount
        /\ \E o \in pop_output(Stream, len) :
               /\ Becomes(o.s)
               /\ last' = Call("pop_output", <<>>, len, o)
        /\ UNCHANGED <<accepted, delivered, web, addr>>

Read ==
    \E len \in Lens :
        /\ Running
        /\ readByte + len <= MaxCount
        /\ \E o \in read(Stream, len) :
               /\ Becomes(o.s)
               /\ last' = Call("read", <<>>, len, o)
               /\ delivered' = delivered \o o.str
        /\ UNCHANGED <<accepted, web, addr>>

EndInput ==
    /\ Running
    /\ LET o == end_input(Stream)
       IN  /\ Becomes(o.s)
           /\ last' = Call("end_input", <<>>, 0, o)
    /\ UNCHANGED <<accepted, delivered, web, addr>>

Next == Write \/ PeekOutput \/ PopOutput \/ Read \/ EndInput

Spec == Init /\ [][Next]_vars

\* the producer and a consumer that only calls read
NextRW == Write \/ Read \/ EndInput

SpecRW == Init /\ [][NextRW]_vars

\* a producer that writes until it has called end_input, and a consumer
\* that keeps calling read for at least one byte
ProducerWrite == (end_input_ = FALSE) /\ Write

ConsumerRead ==
    \E len \in 1..MaxLen :
        /\ Running
        /\ \E o \in read(Stream, len) :
               /\ Becomes(o.s)
               /\ last' = Call("read", <<>>, len, o)
               /\ delivered' = delivered \o o.str
        /\ UNCHANGED <<accepted, web, addr>>

NextLive == ProducerWrite \/ ConsumerRead \/ EndInput

SpecLive == Init /\ [][NextLive]_vars /\ WF_vars(ConsumerRead)

\* the calls with any size_t argument and any number of bytes gone through,
\* so that the counters can pass the largest size_t; the two histories are
\* not kept here
SizeArgs == Lens \cup {SizeMod - 1}

WrapWrite ==
    \E data \in Strings :
        /\ Running
        /\ LET o == write(Stream, data)
           IN  /\ Becomes(o.s)
               /\ last' = Call("write", data, 0, o)
        /\ UNCHANGED <<accepted, delivered, web, addr>>

WrapPopOutput ==
    \E len \in SizeArgs :
        /\ Running
        /\ \E o \in pop_output(Stream, len) :
               /\ Becomes(o.s)
               /\ last' = Call("pop_output", <<>>, len, o)
        /\ UNCHANGED <<accepted, delivered, web, addr>>

WrapRead ==
    \E len \in SizeArgs :
        /\ Running
        /\ \E o \in read(Stream, len) :
               /\ Becomes(o.s)
               /\ last' = Call("read", <<>>, len, o)
        /\ UNCHANGED <<accepted, delivered, web, addr>>

NextWrap == WrapWrite \/ PeekOutput \/ WrapPopOutput \/ WrapRead \/ EndInput

SpecWrap == Init /\ [][NextWrap]_vars

\* ------------------------------------------------- Address, call by call
\* the raw socket addresses handed to Address(addr, size): IPv4 and IPv6
\* ones, whole or cut short, and one larger than the storage
RawInputs(little) ==
    {[bytes |-> sockaddr_in(little, f, <<0, 80>>, ip) \o Zeros(pad), size |-> n] :
         f \in {AF_INET, AF_INET6}, ip \in {<<1, 0, 0, 255>>, <<255, 1, 0, 0>>},
         pad \in {0}, n \in {8, SockaddrInSize}}
    \cup {[bytes |-> sockaddr_in(little, f, <<0, 80>>, <<1, 0, 0, 255>>)
                        \o Zeros(StorageSize + 1 - SockaddrInSize), size |-> n] :
              f \in {AF_INET, AF_INET6},
              n \in {SockaddrIn6Size, StorageSize, StorageSize + 1}}

\* what getaddrinfo can give: an error code and no list, or 0 with a list
\* that is empty or starts with an IPv4 or an IPv6 address
GaiOutcomes(little) ==
    {[ret |-> r, res |-> <<>>] : r \in {0, -2, -3}}
    \cup {[ret |-> 0, res |-> <<[ai_addr |-> raw.bytes, ai_addrlen |-> raw.size]>>] :
              raw \in RawInputs(little)}

StreamIdle ==
    /\ Holds(ByteStream(0))
    /\ last = [op |-> "new", data |-> <<>>, len |-> 0, n |-> 0, str |-> <<>>, err |-> "none"]
    /\ accepted = <<>>
    /\ delivered = <<>>

InitAddr ==
    /\ StreamIdle
    /\ web = WebIdle
    /\ \E little \in BOOLEAN : addr = [AddrIdle EXCEPT !.little = little]

\* a behaviour builds its addresses once and then calls the accessors
FromIpv4Numeric ==
    \E x \in U32, y \in U32 :
        LET o == from_ipv4_numeric(addr.little, x)
            p == from_ipv4_numeric(addr.little, y)
        IN  /\ addr.op = "idle"
            /\ addr' = [AddrIdle EXCEPT !.little = addr.little,
                                        !.op = "from_ipv4_numeric", !.how = "numeric",
                                        !.x = x, !.y = y,
                                        !.built = o.built, !.a = o.a, !.b = p.a,
                                        !.err = o.err, !.code = o.code,
                                        !.copied = o.copied, !.size = SockaddrInSize]
            /\ UNCHANGED <<members, last, accepted, delivered, web>>

FromRaw ==
    \E raw \in RawInputs(addr.little) :
        LET o == Address_raw(raw.bytes, raw.size)
        IN  /\ addr.op = "idle"
            /\ addr' = [AddrIdle EXCEPT !.little = addr.little,
                                        !.op = "Address", !.how = "raw",
                                        !.built = o.built, !.a = o.a,
                                        !.err = o.err, !.code = o.code,
                                        !.copied = o.copied, !.size = raw.size]
            /\ UNCHANGED <<members, last, accepted, delivered, web>>

Resolve ==
    \E g \in GaiOutcomes(addr.little) :
        LET o == Address_resolve(g)
        IN  /\ addr.op = "idle"
            /\ addr' = [AddrIdle EXCEPT !.little = addr.little,
                                        !.op = "Address", !.how = "resolve",
                                        !.built = o.built, !.a = o.a,
                                        !.err = o.err, !.code = o.code,
                                        !.copied = o.copied,
                                        !.size = IF g.res = <<>> THEN 0
                                                 ELSE g.res[1].ai_addrlen,
                                        !.ret = g.ret, !.results = Len(g.res)]
            /\ UNCHANGED <<members, last, accepted, delivered, web>>

Ipv4Numeric ==
    /\ addr.built
    /\ LET o == ipv4_numeric(addr.little, addr.a)
       IN  addr' = [addr EXCEPT !.op = "ipv4_numeric", !.num = o.num, !.err = o.err]
    /\ UNCHANGED <<members, last, accepted, delivered, web>>

Equals ==
    /\ addr.built
    /\ addr.how = "numeric"
    /\ addr' = [addr EXCEPT !.op = "operator==", !.eq = Address_eq(addr.a, addr.b)]
    /\ UNCHANGED <<members, last, accepted, delivered, web>>

NextAddr == FromIpv4Numeric \/ FromRaw \/ Resolve \/ Ipv4Numeric \/ Equals

SpecAddr == InitAddr /\ [][NextAddr]_vars

\* ------------------------------------------------ get_URL, line by line
Hosts == {"h1", "h2"}
Paths == {"/", "/x"}

InitWeb ==
    /\ StreamIdle
    /\ addr = AddrIdle
    /\ \E host \in Hosts, path \in Paths :
           web = [WebIdle EXCEPT !.pc = "resolve", !.host = host, !.path = path]

Others == <<members, last, accepted, delivered, addr>>

\* an exception leaves get_URL: nothing after it runs
Throw == web' = [web EXCEPT !.pc = "failed"]

\* Address add=Address(host,"http")
GetURL_Resolve ==
    /\ web.pc = "resolve"
    /\ \E o \in Address_of(web.host, "http") :
           IF o.err = "none"
           THEN web' = [web EXCEPT !.pc = "connect", !.endpoint = o.address]
           ELSE Throw
    /\ UNCHANGED Others

\* socket.connect(add)
GetURL_Connect ==
    /\ web.pc = "connect"
    /\ \E o \in socket_connect(web.socket, web.endpoint) :
           IF o.err = "none"
           THEN web' = [web EXCEPT !.pc = "write", !.socket = o.socket]
           ELSE Throw
    /\ UNCHANGED Others

\* socket.write(data_send)
GetURL_Write ==
    /\ web.pc = "write"
    /\ \E o \in socket_write(web.socket, data_send(web.host, web.path)) :
           IF o.err = "none"
           THEN web' = [web EXCEPT !.pc = "while", !.socket = o.socket,
                                   !.sent = Append(@, data_send(web.host, web.path))]
           ELSE Throw
    /\ UNCHANGED Others

\* while (!socket.eof())
GetURL_While ==
    /\ web.pc = "while"
    /\ web' = [web EXCEPT !.pc = IF loop_condition(web.socket, web.reads)
                                  THEN "read" ELSE "close"]
    /\ UNCHANGED Others

\* auto data_recv = socket.read()
GetURL_Read ==
    /\ web.pc = "read"
    /\ \E o \in socket_read(web.socket) :
           IF o.err = "none"
           THEN web' = [web EXCEPT !.pc = "print", !.socket = o.socket,
                                   !.reads = @ + 1, !.received = Append(@, o.str)]
           ELSE Throw
    /\ UNCHANGED Others

\* std::cout << data_recv
GetURL_Print ==
    /\ web.pc = "print"
    /\ web' = [web EXCEPT !.pc = "while",
                          !.printed = Append(@, web.received[Len(web.received)])]
    /\ UNCHANGED Others

\* socket.close()
GetURL_Close ==
    /\ web.pc = "close"
    /\ \E o \in socket_close(web.socket) :
           IF o.err = "none"
           THEN web' = [web EXCEPT !.pc = "done", !.socket = o.socket]
           ELSE Throw
    /\ UNCHANGED Others

NextWeb ==
    \/ GetURL_Resolve \/ GetURL_Connect \/ GetURL_Write \/ GetURL_While
    \/ GetURL_Read \/ GetURL_Print \/ GetURL_Close

SpecWeb == InitWeb /\ [][NextWeb]_vars

TypeOK ==
    /\ cap \in 0..MaxCap
    /\ dataStream \in SeqsUpTo(Byte, MaxCap)
    /\ writeByte \in 0..(SizeMod - 1)
    /\ readByte \in 0..(SizeMod - 1)
    /\ end_input_ \in BOOLEAN

\* ----------------------------------------------------------------- claims
\* C1: whatever was called, the number of buffered bytes is between 0 and
\* the capacity the stream was built with.
C1_SizeWithinCapacity == 0 <= Len(dataStream) /\ Len(dataStream) <= cap

\* a write that was cut short has filled the stream to its capacity
C1_Witness ==
    /\ last.op = "write" /\ 0 < last.n /\ last.n < Len(last.data)
    /\ Len(dataStream) = cap

\* C2: after every operation, pop_output with len beyond the size included,
\* bytes_written() - bytes_read() equals buffer_size().
C2_CountersMatchSize == writeByte - readByte = Len(dataStream)

\* C3: write(data) returns n = min(remaining capacity, length of data),
\* appends exactly the first n bytes of data to the back of the buffer and
\* adds exactly n to bytes_written().
C3_WriteAcceptsPrefix ==
    [][last'.op = "write" =>
         LET n == IF cap - Len(dataStream) <= Len(last'.data)
                  THEN cap - Len(dataStream) ELSE Len(last'.data)
         IN  /\ last'.n = n
             /\ last'.err = "none"
             /\ dataStream' = dataStream \o SubSeq(last'.data, 1, n)
             /\ writeByte' = writeByte + n]_vars

\* a write onto buffered bytes took some of its bytes and dropped the rest
C3_Witness ==
    /\ last.op = "write" /\ 0 < last.n /\ last.n < Len(last.data)
    /\ Len(dataStream) > last.n

\* C4: with a producer that writes and a consumer that reads, the bytes
\* read so far followed by the bytes buffered are the accepted prefixes of
\* the writes, in call order.
C4_Fifo == delivered \o dataStream = accepted

\* some bytes were read, some still wait, and the bytes are not all alike
C4_Witness ==
    /\ last.op = "read" /\ delivered # <<>> /\ dataStream # <<>>
    /\ Len(accepted) >= 3
    /\ \E i, j \in 1..Len(accepted) : accepted[i] # accepted[j]

\* C5: eof() is false until end_input() was called and nothing is
\* buffered, and once eof() is true it is true in every later state,
\* whatever is called next, write included.
C5_EofPermanent ==
    /\ ~(end_input_ /\ Len(dataStream) = 0)
    /\ [][(end_input_ /\ Len(dataStream) = 0)
             => (end_input_' /\ Len(dataStream') = 0)]_vars

\* C6: pop_output(len) removes exactly the first min(len, buffer_size())
\* bytes and adds exactly that count to bytes_read(); a len beyond the
\* size is clamped and raises no error.
C6_PopClamps ==
    [][last'.op = "pop_output" =>
         LET k == IF last'.len <= Len(dataStream) THEN last'.len ELSE Len(dataStream)
         IN  /\ last'.err = "none"
             /\ dataStream' = SubSeq(dataStream, k + 1, Len(dataStream))
             /\ readByte' = readByte + k]_vars

\* C7: peek_output(len) returns exactly the first min(len, buffer_size())
\* buffered bytes, a longer request being cut to what is there, and leaves
\* the buffer, both counters and the end-of-input flag as they were.
C7_PeekTruncates ==
    [][last'.op = "peek_output" =>
         LET k == IF last'.len <= Len(dataStream) THEN last'.len ELSE Len(dataStream)
         IN  /\ last'.err = "none"
             /\ last'.str = SubSeq(dataStream, 1, k)
             /\ UNCHANGED members]_vars

\* peek_output(n) and then, unless it faulted, pop_output(n): the string
\* of the former with the stream and the error of the latter
PeekThenPop(s, n) ==
    UNION {IF p.err # "none"
           THEN {p}
           ELSE {Outcome(q.s, 0, p.str, q.err) : q \in pop_output(p.s, n)} :
               p \in peek_output(s, n)}

\* C8: in every state and for every n, n beyond the size included,
\* peek_output(n) followed by pop_output(n) ends with the same returned
\* bytes, the same stream and the same absence of error as read(n).
C8_PeekPopIsRead == \A n \in Lens : PeekThenPop(Stream, n) = read(Stream, n)

\* C9: read(len), for len = 0 and len beyond the size too, raises no
\* error, returns exactly the first k = min(len, buffer_size()) buffered
\* bytes, removes exactly those, adds k to bytes_read() and leaves the
\* other bytes, bytes_written() and the end-of-input flag as they were.
C9_ReadClamps ==
    [][last'.op = "read" =>
         LET k == IF last'.len <= Len(dataStream) THEN last'.len ELSE Len(dataStream)
         IN  /\ last'.err = "none"
             /\ last'.str = SubSeq(dataStream, 1, k)
             /\ dataStream' = SubSeq(dataStream, k + 1, Len(dataStream))
             /\ readByte' = readByte + k
             /\ UNCHANGED <<cap, writeByte, end_input_>>]_vars

\* a read that asked for more than was buffered returned what there was
C9_Witness ==
    /\ last.op = "read" /\ last.err = "none"
    /\ last.str # <<>> /\ Len(last.str) < last.len
    /\ dataStream = <<>>

\* C10: input_ended() is false on a new stream; once end_input() was
\* called it is true in every later state; end_input() on a stream whose
\* input has ended leaves the whole stream as it was.
C10_InputEndedPermanent ==
    /\ end_input_ = FALSE
    /\ [][/\ last'.op = "end_input" => end_input_'
          /\ end_input_ => end_input_'
          /\ (last'.op = "end_input" /\ end_input_) => UNCHANGED members]_vars

\* bytes were written after end_input() and the flag is still set
C10_Witness ==
    /\ last.op = "write" /\ last.n > 0
    /\ end_input_ = TRUE

\* C11: when the producer has called end_input() and writes no more, and
\* the consumer keeps calling read(len) with len >= 1, eof() becomes true
\* in the end, and bytes_read() equals bytes_written() then.
C11_EofReached ==
    (end_input_ = TRUE) ~> (end_input_ /\ Len(dataStream) = 0 /\ readByte = writeByte)

\* the stream ended with bytes buffered and a read took the last of them
C11_Witness ==
    /\ last.op = "read" /\ last.str # <<>>
    /\ end_input_ /\ dataStream = <<>>
    /\ Len(delivered) > Len(last.str)

\* C12: in every state eof() is true exactly when input_ended() is true
\* and nothing is buffered, and buffer_empty() is true exactly when
\* nothing is buffered.
C12_EofIff ==
    /\ eof(Stream) <=> (end_input_ /\ Len(dataStream) = 0)
    /\ buffer_empty(Stream) <=> (Len(dataStream) = 0)

\* input has ended while bytes are still buffered: eof() is false
C12_Witness ==
    /\ end_input_ /\ dataStream # <<>>
    /\ ~eof(Stream) /\ ~buffer_empty(Stream)

\* C13: across every step of any sequence of write, peek_output,
\* pop_output, read and end_input calls, bytes_written() and bytes_read()
\* never decrease, the counters being size_t values.
C13_CountersNeverDecrease ==
    [][writeByte' >= writeByte /\ readByte' >= readByte]_vars

\* C14: a stream built with capacity 0 (the constructor does not reject
\* it) is always full: every write returns 0, buffer_size() and
\* bytes_written() stay 0, and eof() holds exactly when end_input() has
\* been called.
C14_ZeroCapacity ==
    cap = 0 =>
        /\ last.op = "write" => last.n = 0
        /\ Len(dataStream) = 0
        /\ writeByte = 0
        /\ eof(Stream) <=> end_input_

\* bytes were offered to a stream of capacity 0 after end_input()
C14_Witness ==
    /\ cap = 0 /\ end_input_
    /\ last.op = "write" /\ last.data # <<>>

\* C15: when no capacity remains, write(data) returns 0 and changes
\* nothing: the buffered bytes, both counters and the end-of-input flag
\* are as before, so that what is read or popped later is the same as
\* without the write.
C15_FullWriteIsNoOp ==
    [][(last'.op = "write" /\ cap - Len(dataStream) = 0) =>
         /\ last'.n = 0
         /\ last'.err = "none"
         /\ UNCHANGED members]_vars

\* bytes were offered to a stream holding as many bytes as its capacity
C15_Witness ==
    /\ last.op = "write" /\ last.data # <<>> /\ last.n = 0
    /\ cap > 0 /\ Len(dataStream) = cap

\* C16: in every state remaining_capacity() is capacity - buffer_size(),
\* without wrap-around; read(k) makes it grow by the k bytes it removes,
\* and the next write accepts up to that many bytes, put after the bytes
\* not yet read.
C16_CapacityReused ==
    /\ [](/\ remaining_capacity(Stream) = cap - Len(dataStream)
          /\ remaining_capacity(Stream) >= 0)
    /\ [][/\ last'.op = "read" =>
                remaining_capacity(Stream)' = remaining_capacity(Stream) + Len(last'.str)
          /\ last'.op = "write" =>
                /\ last'.n <= cap - Len(dataStream)
                /\ (Len(last'.data) <= cap - Len(dataStream)) => last'.n = Len(last'.data)
                /\ dataStream' = dataStream \o SubSeq(last'.data, 1, last'.n)]_vars

\* a stream that had been full took new bytes behind unread ones, in room
\* that a read had freed
C16_Witness ==
    /\ last.op = "write" /\ last.n > 0
    /\ delivered # <<>>
    /\ Len(dataStream) > last.n
    /\ writeByte > cap

\* C17: write does not look at the end-of-input flag: after end_input()
\* write(data) accepts min(remaining capacity, length of data) bytes,
\* buffer_size() and bytes_written() grow by that count, and
\* input_ended() stays true.
C17_WriteAfterEndInput ==
    [][(last'.op = "write" /\ end_input_) =>
         LET n == IF cap - Len(dataStream) <= Len(last'.data)
                  THEN cap - Len(dataStream) ELSE Len(last'.data)
         IN  /\ last'.n = n
             /\ Len(dataStream') = Len(dataStream) + n
             /\ writeByte' = writeByte + n
             /\ end_input_' = TRUE]_vars

\* after end_input() a write was cut short by the capacity
C17_Witness ==
    /\ end_input_ = TRUE
    /\ last.op = "write" /\ 0 < last.n /\ last.n < Len(last.data)

\* C19: for every 32-bit value x, from_ipv4_numeric(x).ipv4_numeric()
\* returns x, and the addresses built from x and y compare equal exactly
\* when x = y.
C19_Ipv4RoundTrip ==
    /\ (addr.op = "ipv4_numeric" /\ addr.how = "numeric") =>
           (addr.err = "none" /\ addr.num = addr.x)
    /\ (addr.op = "operator==" /\ addr.how = "numeric") =>
           (addr.eq <=> addr.x = addr.y)

\* on a little-endian host a value that is not its own byte swap came back
C19_Witness ==
    /\ addr.op = "ipv4_numeric" /\ addr.how = "numeric"
    /\ addr.little
    /\ addr.x = <<1, 0, 255, 255>>
    /\ addr.num = <<1, 0, 255, 255>>

\* C20: each failure ends in an exception and neither an Address nor a
\* number: a raw size beyond the storage fails before a byte is copied; a
\* non-zero return of the resolver fails with that code; a return of 0
\* with no result fails; ipv4_numeric fails when the family is not IPv4 or
\* the size is not that of sockaddr_in.
C20_AddressFailures ==
    /\ (addr.how = "raw" /\ addr.size > StorageSize) =>
           /\ ~addr.built /\ addr.a = NoAddress
           /\ addr.err = "invalid sockaddr size"
           /\ addr.copied = 0
    /\ (addr.how = "resolve" /\ addr.ret # 0) =>
           /\ ~addr.built /\ addr.a = NoAddress
           /\ addr.err = "getaddrinfo" /\ addr.code = addr.ret
    /\ (addr.how = "resolve" /\ addr.ret = 0 /\ addr.results = 0) =>
           /\ ~addr.built /\ addr.a = NoAddress
           /\ addr.err = "getaddrinfo returned successfully but with no results"
    /\ (addr.op = "ipv4_numeric"
          /\ (ss_family(addr.little, addr.a.storage) # AF_INET
                \/ addr.a.size # SockaddrInSize)) =>
           /\ addr.err = "ipv4_numeric called on non-IPV4 address"
           /\ addr.num = Zeros(4)

\* ipv4_numeric was called on an IPv6 address and threw
C20_Witness ==
    /\ addr.op = "ipv4_numeric" /\ addr.how = "resolve"
    /\ ss_family(addr.little, addr.a.storage) = AF_INET6
    /\ addr.err = "ipv4_numeric called on non-IPV4 address"

\* C18: get_URL connects to the resolved endpoint, writes the request
\* exactly once, then reads and prints each chunk in the order received
\* for as long as the socket does not report eof, and calls close() only
\* after eof was seen; nothing is read before the request is written and
\* nothing is printed after close().
C18_GetUrlOrder ==
    /\ [](/\ Len(web.sent) <= 1
          /\ web.sent # <<>> => web.socket.connected = <<web.host, "http">>
          /\ web.reads > 0 => Len(web.sent) = 1
          /\ web.printed = SubSeq(web.received, 1, Len(web.printed))
          /\ Len(web.received) - Len(web.printed) <= 1
          /\ web.socket.closed => (web.socket.eof /\ web.printed = web.received)
          /\ web.pc = "done" => web.socket.closed)
    /\ [][/\ web'.reads > web.reads => (~web.socket.eof /\ ~web.socket.closed)
          /\ web.socket.closed => web'.printed = web.printed
          /\ Len(web'.sent) > Len(web.sent) =>
                (web.reads = 0 /\ web.socket.connected = <<web.host, "http">>)]_vars

\* two chunks and the end of the data were read and printed, in order,
\* and the socket was closed
C18_Witness ==
    /\ web.pc = "done" /\ web.socket.closed
    /\ web.printed = <<"a", "b", "">>
    /\ Len(web.sent) = 1
====
